---- MODULE Spec2Model ----
(***************************************************************************)
(* Room-scoped real-time messaging core of the chat server: the server     *)
(* entry point with its Socket.IO handlers, and the ChatMessage schema.    *)
(*                                                                         *)
(* The server registers five handlers per socket: join_room, send_message, *)
(* disconnect, typing and read_message.  send_message and read_message are *)
(* async functions that suspend on one store call; the model splits them   *)
(* at that await into the handler's first part, the store's completion of  *)
(* the call, and the handler's continuation.                               *)
(***************************************************************************)
EXTENDS Integers, Sequences, FiniteSets, Bags, TLC

(* ---------------------------------------------------------------------- *)
(* Bounds of the model                                                     *)
(* ---------------------------------------------------------------------- *)
MaxConns == 2       \* sockets ever connected
MaxPending == 2     \* handler invocations suspended at the same time
MaxMessages == 2    \* documents in the ChatMessage collection
MaxTime == 1        \* last value of the clock
MaxRequests == 2    \* requests made to the chat history route
MaxReceipts == 2    \* message_read events a socket is sent

(* ---------------------------------------------------------------------- *)
(* Values                                                                  *)
(* ---------------------------------------------------------------------- *)
Undefined == "undefined"
ConnIds == 1..MaxConns
Rooms == {"rA", "rB"}
Senders == {"u1"}
Texts == {"hi"}
MessageIds == 1..MaxMessages
NoDoc == 0

\* what a client puts in the handshake: no token, a token that verifies, a
\* token that does not
NoCredential == "none"
ValidToken == "valid"
InvalidToken == "invalid"
Credentials == {NoCredential, ValidToken, InvalidToken}

\* payloads a client can emit with send_message: complete, or with one of
\* the three fields missing
SendPayloads ==
  {d \in [roomId : Rooms \cup {Undefined},
          sender : Senders \cup {Undefined},
          message : Texts \cup {Undefined}] :
     Cardinality({f \in {"roomId", "sender", "message"} : d[f] = Undefined}) <= 1}

VARIABLES
  running,    \* the server process is alive
  now,        \* the server clock (Date.now)
  conns,      \* sockets currently connected
  closed,     \* sockets that were connected and are torn down
  rooms,      \* rooms[c]: rooms socket c has joined (socket.rooms)
  messages,   \* the ChatMessage collection, in insertion order
  pending,    \* bag of handler invocations suspended at their await
  inbox,      \* inbox[c]: events the server delivered to socket c, in order
  handshake,  \* handshake[c]: the credential socket c presented when it connected
  dbUp,       \* the mongoose connection is open
  responses,  \* the HTTP responses sent (or the outcomes of the middleware
              \* calls), in order
  users       \* the User collection, in insertion order

vars == <<running, now, conns, closed, rooms, messages, pending, inbox,
          handshake, dbUp, responses, users>>

\* the state of the HTTP side: the store's connection and the responses sent
http == <<dbUp, responses, users>>

(* ---------------------------------------------------------------------- *)
(* Helpers                                                                 *)
(* ---------------------------------------------------------------------- *)
Range(s) == {s[i] : i \in 1..Len(s)}

\* socket.io adapter: sockets currently in a room
membersOf(roomId) == {c \in conns : roomId \in rooms[c]}

\* chatMessageSchema: roomId, sender and message are String paths with
\* required: true; the required validator of a String path fails for a
\* missing value and for the empty string
required(v) == v # Undefined /\ v # ""

\* a schema that requires roomId only
validateRoomOnly(d) == required(d.roomId)

validate(d) == required(d.roomId) /\ required(d.sender) /\ required(d.message)

\* new ChatMessage({roomId, sender, message}): timestamp defaults to
\* Date.now, readBy defaults to []
NewChatMessage(id, d, ts) ==
  [id |-> id, roomId |-> d.roomId, sender |-> d.sender, message |-> d.message,
   timestamp |-> ts, readBy |-> <<>>]

\* ChatMessage.find({}) in place of find({ roomId }): every document
findAll(roomId) == messages

\* ChatMessage.find({ roomId })
find(roomId) == SelectSeq(messages, LAMBDA m : m.roomId = roomId)

\* { $push: { readBy: userId } } in place of $addToSet
arrayPush(arr, v) == Append(arr, v)

\* { $addToSet: { readBy: userId } }
addToSet(arr, v) == IF v \in Range(arr) THEN arr ELSE Append(arr, v)

\* ChatMessage.updateOne({ _id: messageId }, { $addToSet: { readBy: userId } })
updateOne(coll, messageId, userId) ==
  [i \in 1..Len(coll) |->
     IF coll[i].id = messageId
       THEN [coll[i] EXCEPT !.readBy = addToSet(@, userId)]
       ELSE coll[i]]

\* socket.user: the connection handler never assigns it
socketUser(c) == Undefined

\* an outbound event: fields is the payload; the socket whose event caused
\* it, the room it was emitted to and the document it is about are kept for
\* the record
Event(type, origin, room, docId, fields) ==
  [type |-> type, origin |-> origin, room |-> room, docId |-> docId,
   fields |-> fields]

\* io.emit(ev) in place of io.to(roomId).emit(ev): every connected socket
ioEmitAll(box, roomId, ev) ==
  [c \in ConnIds |-> IF c \in conns THEN Append(box[c], ev) ELSE box[c]]

\* io.to(roomId).emit(ev): every socket in the room
ioToEmit(box, roomId, ev) ==
  [c \in ConnIds |-> IF c \in membersOf(roomId) THEN Append(box[c], ev) ELSE box[c]]

\* socket.to(roomId).emit(ev): every socket in the room except this one
socketToEmit(box, c0, roomId, ev) ==
  [c \in ConnIds |->
     IF c \in membersOf(roomId) /\ c # c0 THEN Append(box[c], ev) ELSE box[c]]

\* a suspended invocation of an async handler
Invocation(kind, c, roomId, sender, message, messageId, ts) ==
  [kind |-> kind, conn |-> c, roomId |-> roomId, sender |-> sender,
   message |-> message, messageId |-> messageId, ts |-> ts,
   stage |-> "awaiting", docId |-> NoDoc]

Suspended == BagToSet(pending)

\* pending with invocation p replaced by q (p leaves, q enters)
Replace(p, q) == (pending (-) SetToBag({p})) (+) SetToBag({q})

\* another handler may suspend
CanSuspend == BagCardinality(pending) < MaxPending

\* the collection has room for one more document, counting the saves in flight
RoomInStore ==
  LET saving == {p \in Suspended : p.kind = "send" /\ p.stage = "awaiting"}
      inFlight == BagCardinality([p \in saving |-> pending[p]])
  IN  Len(messages) + inFlight < MaxMessages

(* ---------------------------------------------------------------------- *)
(* Initial state: the process has started, nobody is connected             *)
(* ---------------------------------------------------------------------- *)
Init ==
  /\ running = TRUE
  /\ now = 0
  /\ conns = {}
  /\ closed = {}
  /\ rooms = [c \in ConnIds |-> {}]
  /\ messages = <<>>
  /\ pending = EmptyBag
  /\ inbox = [c \in ConnIds |-> <<>>]
  /\ handshake = [c \in ConnIds |-> NoCredential]
  /\ dbUp = TRUE
  /\ responses = <<>>
  /\ users = <<>>

(* ---------------------------------------------------------------------- *)
(* The process dies of an uncaught exception: every socket is torn down    *)
(* and every suspended handler is lost                                     *)
(* ---------------------------------------------------------------------- *)
Crash ==
  /\ running' = FALSE
  /\ closed' = closed \cup conns
  /\ conns' = {}
  /\ rooms' = [c \in ConnIds |-> {}]
  /\ pending' = EmptyBag

(* ---------------------------------------------------------------------- *)
(* Environment: the clock advances                                         *)
(* ---------------------------------------------------------------------- *)
Tick ==
  /\ running
  /\ now < MaxTime
  /\ now' = now + 1
  /\ UNCHANGED <<running, conns, closed, rooms, messages, pending, inbox>>
  /\ UNCHANGED <<handshake, http>>

\* a connection handler behind a middleware that refuses a token that does
\* not verify
connectionVerified(c, credential) ==
  /\ running
  /\ c \notin conns \cup closed
  /\ credential # InvalidToken
  /\ conns' = conns \cup {c}
  /\ handshake' = [handshake EXCEPT ![c] = credential]
  /\ UNCHANGED <<running, now, closed, rooms, messages, pending, inbox, http>>

\* a connection handler that puts every new socket in a lobby room
connectionAutoJoin(c, credential) ==
  /\ running
  /\ c \notin conns \cup closed
  /\ conns' = conns \cup {c}
  /\ rooms' = [rooms EXCEPT ![c] = {"rA"}]
  /\ handshake' = [handshake EXCEPT ![c] = credential]
  /\ UNCHANGED <<running, now, closed, messages, pending, inbox, http>>

(* ---------------------------------------------------------------------- *)
(* io.on('connection'): a new socket with a fresh id, member of no room.   *)
(* There is no io.use middleware and the handler does not read the         *)
(* handshake: whatever credential the client presented is kept by          *)
(* socket.io in socket.handshake and nothing looks at it.                  *)
(* ---------------------------------------------------------------------- *)
connection(c, credential) ==
  /\ running
  /\ c \notin conns \cup closed
  /\ conns' = conns \cup {c}
  /\ handshake' = [handshake EXCEPT ![c] = credential]
  /\ UNCHANGED <<running, now, closed, rooms, messages, pending, inbox, http>>

\* a join that leaves the rooms joined before (a room switch)
socketJoinSwitch(rs, c, roomId) == [rs EXCEPT ![c] = {roomId}]

\* a join that leaves the room when the socket is in it already
socketJoinToggle(rs, c, roomId) ==
  [rs EXCEPT ![c] = IF roomId \in @ THEN @ \ {roomId} ELSE @ \cup {roomId}]

\* socket.join(roomId): socket.rooms is a Set
socketJoin(rs, c, roomId) == [rs EXCEPT ![c] = @ \cup {roomId}]

\* a join_room handler that also stores a message announcing the join
join_roomAnnounce(c, roomId) ==
  /\ running
  /\ c \in conns
  /\ Len(messages) < MaxMessages
  /\ rooms' = socketJoin(rooms, c, roomId)
  /\ messages' = Append(messages,
                        NewChatMessage(Len(messages) + 1,
                                       [roomId |-> roomId, sender |-> "u1",
                                        message |-> "hi"], now))
  /\ UNCHANGED <<running, now, conns, closed, pending, inbox>>
  /\ UNCHANGED <<handshake, http>>

\* socket.on('join_room')
join_room(c, roomId) ==
  /\ running
  /\ c \in conns
  /\ rooms' = socketJoin(rooms, c, roomId)
  /\ UNCHANGED <<running, now, conns, closed, messages, pending, inbox>>
  /\ UNCHANGED <<handshake, http>>

\* a teardown that leaves the socket in its rooms
disconnectKeepRooms(c) ==
  /\ running
  /\ c \in conns
  /\ conns' = conns \ {c}
  /\ closed' = closed \cup {c}
  /\ UNCHANGED <<running, now, rooms, messages, pending, inbox, handshake, http>>

\* socket.on('disconnect'): the handler logs; socket.io has already removed
\* the socket from its rooms
disconnect(c) ==
  /\ running
  /\ c \in conns
  /\ conns' = conns \ {c}
  /\ closed' = closed \cup {c}
  /\ rooms' = [rooms EXCEPT ![c] = {}]
  /\ UNCHANGED <<running, now, messages, pending, inbox, handshake, http>>

\* a send_message handler that broadcasts when the event arrives, to the
\* members of that moment, before it saves
send_messageEager(c, data) ==
  /\ running
  /\ c \in conns
  /\ CanSuspend
  /\ RoomInStore
  /\ pending' = pending (+)
       SetToBag({Invocation("send", c, data.roomId, data.sender, data.message,
                            NoDoc, now)})
  /\ inbox' = ioToEmit(inbox, data.roomId,
                       Event("receive_message", c, data.roomId, NoDoc,
                             [sender |-> data.sender, message |-> data.message,
                              timestamp |-> now]))
  /\ UNCHANGED <<running, now, conns, closed, rooms, messages>>
  /\ UNCHANGED <<handshake, http>>

\* a send_message handler that returns at once for a socket without identity
send_messageIdentified(c, data) ==
  /\ running
  /\ c \in conns
  /\ socketUser(c) # Undefined
  /\ CanSuspend
  /\ RoomInStore
  /\ pending' = pending (+)
       SetToBag({Invocation("send", c, data.roomId, data.sender, data.message,
                            NoDoc, now)})
  /\ UNCHANGED <<running, now, conns, closed, rooms, messages, inbox>>
  /\ UNCHANGED <<handshake, http>>

\* a send_message handler that returns at once for a socket that is not in
\* the room it sends to
send_messageMembersOnly(c, data) ==
  /\ running
  /\ c \in conns
  /\ data.roomId \in rooms[c]
  /\ CanSuspend
  /\ RoomInStore
  /\ pending' = pending (+)
       SetToBag({Invocation("send", c, data.roomId, data.sender, data.message,
                            NoDoc, now)})
  /\ UNCHANGED <<running, now, conns, closed, rooms, messages, inbox>>
  /\ UNCHANGED <<handshake, http>>

(* ---------------------------------------------------------------------- *)
(* socket.on('send_message'): builds the document and awaits save()        *)
(* ---------------------------------------------------------------------- *)
send_message(c, data) ==
  /\ running
  /\ c \in conns
  /\ CanSuspend
  /\ RoomInStore
  /\ pending' = pending (+)
       SetToBag({Invocation("send", c, data.roomId, data.sender, data.message,
                            NoDoc, now)})
  /\ UNCHANGED <<running, now, conns, closed, rooms, messages, inbox>>
  /\ UNCHANGED <<handshake, http>>

(* ---------------------------------------------------------------------- *)
(* socket.on('typing'): synchronous; reading socket.user.userId throws     *)
(* when socket.user is undefined, and nothing catches it                   *)
(* ---------------------------------------------------------------------- *)
typing(c, roomId, isTyping) ==
  /\ running
  /\ c \in conns
  /\ IF socketUser(c) = Undefined
       THEN /\ Crash
            /\ UNCHANGED <<now, messages, inbox>>
       ELSE /\ inbox' = socketToEmit(inbox, c, roomId,
                          Event("typing", c, roomId, NoDoc,
                                [user |-> socketUser(c), isTyping |-> isTyping]))
            /\ UNCHANGED <<running, now, conns, closed, rooms, messages, pending>>
  /\ UNCHANGED <<handshake, http>>

(* ---------------------------------------------------------------------- *)
(* socket.on('read_message'): async; socket.user.userId is read before the *)
(* try block, so with socket.user undefined the handler's promise rejects  *)
(* unhandled: fatal on Node 15 and later, a warning on Node 14             *)
(* ---------------------------------------------------------------------- *)
read_message(c, messageId, roomId, fatal) ==
  /\ running
  /\ c \in conns
  /\ IF socketUser(c) = Undefined
       THEN /\ IF fatal
                 THEN Crash
                 ELSE UNCHANGED <<running, conns, closed, rooms, pending>>
            /\ UNCHANGED <<now, messages, inbox>>
       ELSE /\ CanSuspend
            /\ pending' = pending (+)
                 SetToBag({Invocation("read", c, roomId, socketUser(c), Undefined,
                                      messageId, now)})
            /\ UNCHANGED <<running, now, conns, closed, rooms, messages, inbox>>
  /\ UNCHANGED <<handshake, http>>

\* a save that writes every document under the same _id: the document
\* stored before is overwritten
storeCompleteOverwrite(p, ok) ==
  /\ running
  /\ p \in Suspended
  /\ p.stage = "awaiting"
  /\ IF p.kind = "send"
       THEN IF validate(p) /\ ok
              THEN /\ messages' = <<NewChatMessage(1, p, p.ts)>>
                   /\ pending' = Replace(p, [p EXCEPT !.stage = "resolved",
                                                       !.docId = 1])
              ELSE /\ pending' = Replace(p, [p EXCEPT !.stage = "rejected"])
                   /\ UNCHANGED messages
       ELSE IF ok
              THEN /\ messages' = updateOne(messages, p.messageId, p.sender)
                   /\ pending' = Replace(p, [p EXCEPT !.stage = "resolved"])
              ELSE /\ pending' = Replace(p, [p EXCEPT !.stage = "rejected"])
                   /\ UNCHANGED messages
  /\ UNCHANGED <<running, now, conns, closed, rooms, inbox, handshake, http>>

(* ---------------------------------------------------------------------- *)
(* The store completes the call a handler awaits: chatMessage.save()       *)
(* validates and inserts, ChatMessage.updateOne() applies $addToSet; ok    *)
(* says whether the store could be reached                                 *)
(* ---------------------------------------------------------------------- *)
storeComplete(p, ok) ==
  /\ running
  /\ p \in Suspended
  /\ p.stage = "awaiting"
  /\ IF p.kind = "send"
       THEN IF validate(p) /\ ok
              THEN /\ messages' = Append(messages,
                                    NewChatMessage(Len(messages) + 1, p, p.ts))
                   /\ pending' = Replace(p, [p EXCEPT !.stage = "resolved",
                                                       !.docId = Len(messages) + 1])
              ELSE /\ pending' = Replace(p, [p EXCEPT !.stage = "rejected"])
                   /\ UNCHANGED messages
       ELSE IF ok
              THEN /\ messages' = updateOne(messages, p.messageId, p.sender)
                   /\ pending' = Replace(p, [p EXCEPT !.stage = "resolved"])
              ELSE /\ pending' = Replace(p, [p EXCEPT !.stage = "rejected"])
                   /\ UNCHANGED messages
  /\ UNCHANGED <<running, now, conns, closed, rooms, inbox, handshake, http>>

\* the broadcast placed after the try/catch: it runs whether or not save()
\* succeeded
resumeAlwaysBroadcast(p) ==
  /\ running
  /\ p \in Suspended
  /\ p.stage \in {"resolved", "rejected"}
  /\ pending' = pending (-) SetToBag({p})
  /\ IF p.kind = "send"
       THEN inbox' = ioToEmit(inbox, p.roomId,
                       Event("receive_message", p.conn, p.roomId, p.docId,
                             [sender |-> p.sender, message |-> p.message,
                              timestamp |-> now]))
       ELSE UNCHANGED inbox
  /\ UNCHANGED <<running, now, conns, closed, rooms, messages, handshake, http>>

\* socket.to(roomId) in place of io.to(roomId): the sender is left out
resumeSocketTo(p) ==
  /\ running
  /\ p \in Suspended
  /\ p.stage \in {"resolved", "rejected"}
  /\ pending' = pending (-) SetToBag({p})
  /\ IF p.stage = "rejected"
       THEN UNCHANGED inbox
       ELSE inbox' = socketToEmit(inbox, p.conn, p.roomId,
                       Event("receive_message", p.conn, p.roomId, p.docId,
                             [sender |-> p.sender, message |-> p.message,
                              timestamp |-> now]))
  /\ UNCHANGED <<running, now, conns, closed, rooms, messages, handshake, http>>

\* continuations that run in the order of the documents' ids: a resolved
\* send waits for the resolved sends whose document was stored before its own
resumeInOrder(p) ==
  /\ running
  /\ p \in Suspended
  /\ p.stage \in {"resolved", "rejected"}
  /\ \A q \in Suspended :
       (p.kind = "send" /\ q.kind = "send" /\ p.stage = "resolved"
        /\ q.stage = "resolved") => q.docId >= p.docId
  /\ pending' = pending (-) SetToBag({p})
  /\ IF p.stage = "rejected"
       THEN UNCHANGED inbox
       ELSE IF p.kind = "send"
              THEN inbox' = ioToEmit(inbox, p.roomId,
                              Event("receive_message", p.conn, p.roomId, p.docId,
                                    [sender |-> p.sender, message |-> p.message,
                                     timestamp |-> now]))
              ELSE inbox' = socketToEmit(inbox, p.conn, p.roomId,
                              Event("message_read", p.conn, p.roomId, NoDoc,
                                    [messageId |-> p.messageId, userId |-> p.sender]))
  /\ UNCHANGED <<running, now, conns, closed, rooms, messages, handshake, http>>

\* a broadcast preceded by socket.emit: the sender is sent the event
\* itself, and once more with the room when it is a member
resumeEchoSender(p) ==
  /\ running
  /\ p \in Suspended
  /\ p.stage \in {"resolved", "rejected"}
  /\ pending' = pending (-) SetToBag({p})
  /\ IF p.stage = "rejected"
       THEN UNCHANGED inbox
       ELSE IF p.kind = "send"
              THEN LET ev == Event("receive_message", p.conn, p.roomId, p.docId,
                                   [sender |-> p.sender, message |-> p.message,
                                    timestamp |-> now])
                       echoed == [inbox EXCEPT ![p.conn] =
                                    IF p.conn \in conns THEN Append(@, ev) ELSE @]
                   IN  inbox' = ioToEmit(echoed, p.roomId, ev)
              ELSE inbox' = socketToEmit(inbox, p.conn, p.roomId,
                              Event("message_read", p.conn, p.roomId, NoDoc,
                                    [messageId |-> p.messageId, userId |-> p.sender]))
  /\ UNCHANGED <<running, now, conns, closed, rooms, messages, handshake, http>>

\* a continuation that returns at once when its socket is torn down
resumeIfConnected(p) ==
  /\ running
  /\ p \in Suspended
  /\ p.stage \in {"resolved", "rejected"}
  /\ pending' = pending (-) SetToBag({p})
  /\ IF p.stage = "rejected" \/ p.conn \notin conns
       THEN UNCHANGED inbox
       ELSE IF p.kind = "send"
              THEN inbox' = ioToEmit(inbox, p.roomId,
                              Event("receive_message", p.conn, p.roomId, p.docId,
                                    [sender |-> p.sender, message |-> p.message,
                                     timestamp |-> now]))
              ELSE inbox' = socketToEmit(inbox, p.conn, p.roomId,
                              Event("message_read", p.conn, p.roomId, NoDoc,
                                    [messageId |-> p.messageId, userId |-> p.sender]))
  /\ UNCHANGED <<running, now, conns, closed, rooms, messages, handshake, http>>

\* a broadcast that carries the timestamp of the stored document
resumeStoredTimestamp(p) ==
  /\ running
  /\ p \in Suspended
  /\ p.stage \in {"resolved", "rejected"}
  /\ pending' = pending (-) SetToBag({p})
  /\ IF p.stage = "rejected"
       THEN UNCHANGED inbox
       ELSE IF p.kind = "send"
              THEN inbox' = ioToEmit(inbox, p.roomId,
                              Event("receive_message", p.conn, p.roomId, p.docId,
                                    [sender |-> p.sender, message |-> p.message,
                                     timestamp |-> p.ts]))
              ELSE inbox' = socketToEmit(inbox, p.conn, p.roomId,
                              Event("message_read", p.conn, p.roomId, NoDoc,
                                    [messageId |-> p.messageId, userId |-> p.sender]))
  /\ UNCHANGED <<running, now, conns, closed, rooms, messages, handshake, http>>

(* ---------------------------------------------------------------------- *)
(* The handler continues after its await: the rest of the try block when   *)
(* the call resolved, the catch block (console.error) when it rejected     *)
(* ---------------------------------------------------------------------- *)
resume(p) ==
  /\ running
  /\ p \in Suspended
  /\ p.stage \in {"resolved", "rejected"}
  /\ pending' = pending (-) SetToBag({p})
  /\ IF p.stage = "rejected"
       THEN UNCHANGED inbox
       ELSE IF p.kind = "send"
              THEN inbox' = ioToEmit(inbox, p.roomId,
                              Event("receive_message", p.conn, p.roomId, p.docId,
                                    [sender |-> p.sender, message |-> p.message,
                                     timestamp |-> now]))
              ELSE inbox' = socketToEmit(inbox, p.conn, p.roomId,
                              Event("message_read", p.conn, p.roomId, NoDoc,
                                    [messageId |-> p.messageId, userId |-> p.sender]))
  /\ UNCHANGED <<running, now, conns, closed, rooms, messages, handshake, http>>

Next ==
  \/ Tick
  \/ \E c \in ConnIds : connection(c, NoCredential)
  \/ \E c \in ConnIds, r \in Rooms : join_room(c, r)
  \/ \E c \in ConnIds : disconnect(c)
  \/ \E c \in ConnIds, d \in SendPayloads : send_message(c, d)
  \/ \E c \in ConnIds, r \in Rooms, t \in BOOLEAN : typing(c, r, t)
  \/ \E c \in ConnIds, m \in MessageIds, r \in Rooms, f \in BOOLEAN :
       read_message(c, m, r, f)
  \/ \E p \in Suspended, ok \in BOOLEAN : storeComplete(p, ok)
  \/ \E p \in Suspended : resume(p)

Spec == Init /\ [][Next]_vars

(* ---------------------------------------------------------------------- *)
(* The same server with clients that present any credential when they     *)
(* connect, join rooms and send messages                                   *)
(* ---------------------------------------------------------------------- *)
NextAuth ==
  \/ \E c \in ConnIds, k \in Credentials : connection(c, k)
  \/ \E c \in ConnIds, r \in Rooms : join_room(c, r)
  \/ \E c \in ConnIds : disconnect(c)
  \/ \E c \in ConnIds, d \in SendPayloads : send_message(c, d)
  \/ \E p \in Suspended, ok \in BOOLEAN : storeComplete(p, ok)
  \/ \E p \in Suspended : resume(p)

SpecAuth == Init /\ [][NextAuth]_vars

(* ====================================================================== *)
(* The chat history route, GET /api/chat/:roomId, and the store as the     *)
(* route's tests drive it: documents created directly in the collection,   *)
(* with or without a timestamp of their own, and the mongoose connection   *)
(* closed and opened again.  The route file is not part of the sources at  *)
(* hand; its behaviour is taken from its specification.                    *)
(* ====================================================================== *)

\* documents a test creates: complete payloads
CreatePayloads == {d \in SendPayloads : validate(d)}

\* documents whose message is the empty string
EmptyMessagePayloads == [roomId : Rooms, sender : Senders, message : {""}]

\* the timestamp a test gives a document, or none
NoTimestamp == -1
Timestamps == (0..MaxTime) \cup {NoTimestamp}

\* the sorted sequence s with document m put after the documents that are
\* not later than it
insertByTimestamp(s, m) ==
  LET k == Cardinality({i \in 1..Len(s) : s[i].timestamp <= m.timestamp})
  IN  SubSeq(s, 1, k) \o <<m>> \o SubSeq(s, k + 1, Len(s))

\* the documents in the order the collection returns them without a sort
insertionOrder(s) == s

\* .sort({ timestamp: 1 })
RECURSIVE sortByTimestamp(_)
sortByTimestamp(s) ==
  IF s = <<>>
    THEN <<>>
    ELSE insertByTimestamp(sortByTimestamp(SubSeq(s, 1, Len(s) - 1)), s[Len(s)])

FetchFailed == "Failed to fetch chat history"

Response(status, body, error) == [status |-> status, body |-> body, error |-> error]

\* a schema that stamps every document with Date.now, whatever it brings
createStampNow(d, ts) ==
  /\ dbUp
  /\ validate(d)
  /\ Len(messages) < MaxMessages
  /\ messages' = Append(messages, NewChatMessage(Len(messages) + 1, d, now))
  /\ UNCHANGED <<running, now, conns, closed, rooms, pending, inbox, handshake, http>>

\* ChatMessage.create(doc): the schema default sets the timestamp only when
\* the document brings none
create(d, ts) ==
  /\ dbUp
  /\ validate(d)
  /\ Len(messages) < MaxMessages
  /\ messages' = Append(messages,
                        NewChatMessage(Len(messages) + 1, d,
                                       IF ts = NoTimestamp THEN now ELSE ts))
  /\ UNCHANGED <<running, now, conns, closed, rooms, pending, inbox, handshake, http>>

\* mongoose.connection.close()
closeDb ==
  /\ dbUp
  /\ dbUp' = FALSE
  /\ UNCHANGED <<running, now, conns, closed, rooms, messages, pending, inbox,
                 handshake, responses, users>>

\* mongoose.connect(uri)
connectDb ==
  /\ ~dbUp
  /\ dbUp' = TRUE
  /\ UNCHANGED <<running, now, conns, closed, rooms, messages, pending, inbox,
                 handshake, responses, users>>

\* a route that answers an unreachable store like an empty room
getHistoryNoCatch(roomId) ==
  /\ Len(responses) < MaxRequests
  /\ responses' = Append(responses,
                         Response(200, IF dbUp THEN sortByTimestamp(find(roomId))
                                                ELSE <<>>, Undefined))
  /\ UNCHANGED <<running, now, conns, closed, rooms, messages, pending, inbox,
                 handshake, dbUp, users>>

\* GET /api/chat/:roomId
getHistory(roomId) ==
  /\ Len(responses) < MaxRequests
  /\ responses' = Append(responses,
                         IF dbUp
                           THEN Response(200, sortByTimestamp(find(roomId)), Undefined)
                           ELSE Response(500, <<>>, FetchFailed))
  /\ UNCHANGED <<running, now, conns, closed, rooms, messages, pending, inbox,
                 handshake, dbUp, users>>

NextHistory ==
  \/ Tick
  \/ \E d \in CreatePayloads \cup EmptyMessagePayloads, ts \in Timestamps :
       create(d, ts)
  \/ closeDb
  \/ connectDb
  \/ \E r \in Rooms : getHistory(r)

SpecHistory == Init /\ [][NextHistory]_vars

(* ====================================================================== *)
(* The read_message handler from its try block on, for a socket that has a *)
(* userId: what the handler does once socket.user.userId has a value.  The *)
(* server as it stands never gets there (socketUser); the specification    *)
(* below runs this part of the handler for sockets that carry a userId,    *)
(* next to connection and join_room, on a collection filled with           *)
(* ChatMessage.create.                                                     *)
(* ====================================================================== *)
UserIds == {"u1", "u2"}

\* the userId a socket carries
userIdOf(c) == IF c % 2 = 1 THEN "u1" ELSE "u2"

\* every socket has room for the receipts of the reads in flight and one more
RoomForReceipt ==
  LET reading == {p \in Suspended : p.kind = "read"}
      inFlight == BagCardinality([p \in reading |-> pending[p]])
  IN  \A c \in ConnIds :
        Cardinality({i \in 1..Len(inbox[c]) : inbox[c][i].type = "message_read"})
          + inFlight < MaxReceipts

read_messageAs(c, messageId, roomId) ==
  /\ running
  /\ c \in conns
  /\ CanSuspend
  /\ RoomForReceipt
  /\ pending' = pending (+)
       SetToBag({Invocation("read", c, roomId, userIdOf(c), Undefined, messageId,
                            now)})
  /\ UNCHANGED <<running, now, conns, closed, rooms, messages, inbox>>
  /\ UNCHANGED <<handshake, http>>

NextRead ==
  \/ \E c \in ConnIds : connection(c, NoCredential)
  \/ \E c \in ConnIds, r \in Rooms : join_room(c, r)
  \/ \E d \in CreatePayloads : create(d, NoTimestamp)
  \/ \E c \in ConnIds, m \in MessageIds, r \in Rooms : read_messageAs(c, m, r)
  \/ \E p \in Suspended, ok \in BOOLEAN : storeComplete(p, ok)
  \/ \E p \in Suspended : resume(p)

SpecRead == Init /\ [][NextRead]_vars

(* ====================================================================== *)
(* authMiddleware(req, res, next), the JWT middleware of the HTTP routes,   *)
(* called as its unit tests call it: with a request that has an            *)
(* Authorization header or none, a mock response and a mock next.  The     *)
(* middleware file is not part of the sources at hand; its behaviour is    *)
(* taken from its tests.                                                   *)
(* ====================================================================== *)

\* jwt.sign(payload, process.env.JWT_SECRET): the token that verifies
GoodToken == "signed"

\* tokens that fail jwt.verify: malformed, signed with another secret,
\* expired, tampered with
BadTokens == {"malformed", "wrongSecret", "expired", "tampered"}

\* the payload of the token that verifies, and req.user when it is not set
Payload == [id |-> "user123"]
NoUser == [id |-> Undefined]

\* Authorization headers, each as the words between its single spaces
\* (<<>> is a request without the header)
Headers ==
  {<<>>, <<"">>, <<GoodToken>>, <<"Bearer", "">>, <<"Basic", "dXNlcjpw">>,
   <<"", "", "Bearer", "", "", GoodToken, "", "">>}
  \cup {<<scheme, t>> : scheme \in {"Bearer", "bearer"},
                        t \in {GoodToken} \cup BadTokens}

\* req.headers.authorization?.split(' ')[1]; "" when there is none
extractToken(h) == IF Len(h) >= 2 THEN h[2] ELSE ""

\* jwt.verify(token, secret) returns the payload
jwtVerifies(token) == token = GoodToken

\* what one call did: the status and message of its response (0 and "" when
\* it sent none), the number of calls to next, and req.user afterwards
Outcome(h, status, message, next, user) ==
  [header |-> h, status |-> status, message |-> message, next |-> next,
   user |-> user]

\* a middleware that decodes the token into req.user before it verifies it
authMiddlewareDecodeFirst(h) ==
  /\ Len(responses) < MaxRequests
  /\ responses' = Append(responses,
       IF extractToken(h) = ""
         THEN Outcome(h, 401, "Unauthorized", 0, NoUser)
         ELSE IF jwtVerifies(extractToken(h))
                THEN Outcome(h, 0, "", 1, Payload)
                ELSE Outcome(h, 403, "Invalid token", 0, Payload))
  /\ UNCHANGED <<running, now, conns, closed, rooms, messages, pending, inbox,
                 handshake, dbUp, users>>

authMiddleware(h) ==
  /\ Len(responses) < MaxRequests
  /\ responses' = Append(responses,
       IF extractToken(h) = ""
         THEN Outcome(h, 401, "Unauthorized", 0, NoUser)
         ELSE IF jwtVerifies(extractToken(h))
                THEN Outcome(h, 0, "", 1, Payload)
                ELSE Outcome(h, 403, "Invalid token", 0, NoUser))
  /\ UNCHANGED <<running, now, conns, closed, rooms, messages, pending, inbox,
                 handshake, dbUp, users>>

NextMiddleware == \E h \in Headers : authMiddleware(h)

SpecMiddleware == Init /\ [][NextMiddleware]_vars

(* ====================================================================== *)
(* POST /api/auth/register and the User collection.  The route file is not *)
(* part of the sources at hand; the User schema is.  The route's behaviour *)
(* is taken from its tests: 201 for a new email, 400 'Email already in    *)
(* use' for one that is registered.                                        *)
(* ====================================================================== *)

\* an email address as a client writes it: its letters, whether some are in
\* upper case, whether blanks surround it
Emails == [name : {"a@x", "b@x", "c@x"}, upper : BOOLEAN, padded : BOOLEAN]

\* a schema whose email is neither lowercased nor trimmed
rawEmail(e) == e

\* userSchema.email: lowercase: true, trim: true
normaliseEmail(e) == [e EXCEPT !.upper = FALSE, !.padded = FALSE]

\* request bodies: complete registrations
RegisterBodies ==
  [email : Emails, password : {"Password1", "Password2"},
   firstName : {"Jane", "John"}]

\* hashPassword(password): the stored value is not the password
hashPassword(password) == <<"bcrypt", password>>

\* User.findOne({ email }): the filter is cast by the schema
findUser(email) ==
  {i \in 1..Len(users) : users[i].email = normaliseEmail(email)}

\* new User(body): the schema's setters apply; role defaults to 'user'
NewUser(body) ==
  [email |-> normaliseEmail(body.email),
   password |-> hashPassword(body.password), firstName |-> body.firstName,
   role |-> "user"]

Reply(status, message) == [status |-> status, message |-> message]

register(body) ==
  /\ dbUp
  /\ Len(responses) < MaxRequests
  /\ IF findUser(body.email) # {}
       THEN /\ responses' = Append(responses, Reply(400, "Email already in use"))
            /\ UNCHANGED users
       ELSE /\ users' = Append(users, NewUser(body))
            /\ responses' = Append(responses,
                                   Reply(201, "User registered successfully"))
  /\ UNCHANGED <<running, now, conns, closed, rooms, messages, pending, inbox,
                 handshake, dbUp>>

NextRegister == \E body \in RegisterBodies : register(body)

SpecRegister == Init /\ [][NextRegister]_vars

(* ====================================================================== *)
(* One client that disconnects and connects again, as the reliability      *)
(* tests drive the server: client.disconnect() then client.connect().      *)
(* Every connect gives the client a new socket (a fresh socket id); the    *)
(* sockets of the run are the successive connections of that client, so a  *)
(* socket is established only when the one before it has been torn down.   *)
(* ====================================================================== *)

\* the client has connected before and its last connection is torn down
PreviousClosed(c) == c = 1 \/ (c - 1) \in closed

\* client.connect(): the server's connection handler runs for a new socket
reconnection(c) ==
  /\ PreviousClosed(c)
  /\ connection(c, NoCredential)

NextReconnect ==
  \/ \E c \in ConnIds : reconnection(c)
  \/ \E c \in ConnIds, r \in Rooms : join_room(c, r)
  \/ \E c \in ConnIds : disconnect(c)
  \/ \E c \in ConnIds, d \in SendPayloads : send_message(c, d)
  \/ \E p \in Suspended, ok \in BOOLEAN : storeComplete(p, ok)
  \/ \E p \in Suspended : resume(p)

SpecReconnect == Init /\ [][NextReconnect]_vars

(* ====================================================================== *)
(* Properties                                                              *)
(* ====================================================================== *)

\* events delivered to socket c in the current step
Delivered(c) == {inbox'[c][i] : i \in (Len(inbox[c]) + 1)..Len(inbox'[c])}

\* copies of invocation p among the suspended ones
Copies(B, p) == IF p \in DOMAIN B THEN B[p] ELSE 0

\* the step in which the handler invocation p runs its continuation
Continues(p) ==
  /\ p \in Suspended
  /\ p.stage \in {"resolved", "rejected"}
  /\ running'
  /\ pending' = pending (-) SetToBag({p})

\* the step is one of the handler invocation p (it enters, moves or leaves)
StepOf(p) == running' /\ Copies(pending', p) # Copies(pending, p)

ErrorEvents(c) == {e \in Delivered(c) : e.type = "error"}

\* roomId, sender or message is missing from the payload of p
Incomplete(p) == Undefined \in {p.roomId, p.sender, p.message}

(* C1: room isolation.  Every receive_message delivered in a step goes to  *)
(* a connected socket whose membership set, at that moment, contains the   *)
(* room the message was sent to; a socket that is a member of another room *)
(* only is never a recipient.                                              *)
C1_RoomIsolation ==
  [][\A c \in ConnIds : \A e \in Delivered(c) :
       e.type = "receive_message" => c \in conns /\ e.room \in rooms[c]]_vars

\* a member of rA has received a message sent to rA while a member of rB
\* only has received nothing
C1_Witness ==
  \E c1, c2 \in conns :
    /\ "rA" \in rooms[c1]
    /\ rooms[c2] = {"rB"}
    /\ \E e \in Range(inbox[c1]) : e.type = "receive_message" /\ e.room = "rA"
    /\ inbox[c2] = <<>>

(* C2: persist before broadcast.  Whenever a socket holds a receive_message *)
(* the message it announces is in the collection, and a query of its room   *)
(* returns it; no receive_message exists for a save that failed (such an    *)
(* event would name no stored document).                                    *)
C2_PersistBeforeBroadcast ==
  \A c \in ConnIds : \A e \in Range(inbox[c]) :
    e.type = "receive_message" =>
      \E m \in Range(find(e.room)) :
        /\ m.id = e.docId
        /\ m.sender = e.fields.sender
        /\ m.message = e.fields.message

\* a receive_message has been delivered, and another send's save has failed
C2_Witness ==
  /\ \E c \in ConnIds : \E e \in Range(inbox[c]) : e.type = "receive_message"
  /\ \E p \in Suspended : p.kind = "send" /\ ~Incomplete(p) /\ p.stage = "rejected"

(* C3: when the handler continues after a successful save, every socket    *)
(* that is a member of the room at that moment receives exactly one         *)
(* receive_message for the saved document, the sender included when it is   *)
(* a member.                                                                *)
C3_BroadcastToAllMembers ==
  [][\A p \in Suspended :
       (p.kind = "send" /\ p.stage = "resolved" /\ Continues(p)) =>
         \A c \in conns :
           p.roomId \in rooms[c] =>
             /\ Len(inbox'[c]) = Len(inbox[c]) + 1
             /\ \A e \in Delivered(c) :
                  /\ e.type = "receive_message"
                  /\ e.docId = p.docId
                  /\ e.fields.sender = p.sender
                  /\ e.fields.message = p.message]_vars

\* the sender and another member of the room both hold the sender's message
C3_Witness ==
  \E c1, c2 \in conns :
    /\ c1 # c2
    /\ \E e \in Range(inbox[c1]) :
         /\ e.type = "receive_message"
         /\ e.origin = c1
         /\ e \in Range(inbox[c2])

(* C4: sender exclusion.  A typing event of socket c for room r delivers a *)
(* typing event to every other member of r and none to c.                  *)
C4_SenderExclusion ==
  [][\A c \in ConnIds, r \in Rooms, t \in BOOLEAN :
       typing(c, r, t) =>
         /\ Delivered(c) = {}
         /\ \A c2 \in membersOf(r) \ {c} :
              \E e \in Delivered(c2) : e.type = "typing" /\ e.origin = c]_vars

(* C5: a send_message with roomId, sender or message missing ends with an  *)
(* error event delivered to the originating socket, and to no other.       *)
C5_InvalidSendError ==
  [][\A p \in Suspended :
       (p.kind = "send" /\ Incomplete(p) /\ Continues(p)) =>
         /\ ErrorEvents(p.conn) # {}
         /\ \A c \in ConnIds \ {p.conn} : Delivered(c) = {}]_vars

C7_StoreFailureError ==
  [][\A p \in Suspended :
       (p.kind = "send" /\ ~Incomplete(p) /\ p.stage = "rejected" /\ Continues(p)) =>
         /\ ErrorEvents(p.conn) # {}
         /\ \A c \in ConnIds \ {p.conn} : Delivered(c) = {}
         /\ \A c \in ConnIds : \A e \in Delivered(c) : e.type # "receive_message"
         /\ messages' = messages]_vars

(* C8: anonymous drop.  A typing or read_message event of a socket without *)
(* an identity delivers nothing to anyone and changes neither the          *)
(* collection nor any socket's registration or membership.                 *)
C8_AnonymousDrop ==
  [][\A c \in ConnIds, r \in Rooms :
       (/\ socketUser(c) = Undefined
        /\ \/ \E t \in BOOLEAN : typing(c, r, t)
           \/ \E m \in MessageIds, f \in BOOLEAN : read_message(c, m, r, f)) =>
         /\ inbox' = inbox
         /\ messages' = messages
         /\ conns' = conns
         /\ rooms' = rooms]_vars

(* C9: failure containment.  After a failed event (an invalid send, a      *)
(* failed save, a typing or read_message of a socket without an identity)  *)
(* the process is running, and the originating socket is registered with   *)
(* the memberships it had.                                                 *)
C9_FailureContained ==
  [][\A c \in ConnIds :
       (\/ \E p \in Suspended : p.conn = c /\ p.stage = "rejected" /\ Continues(p)
        \/ /\ socketUser(c) = Undefined
           /\ \/ \E r \in Rooms, t \in BOOLEAN : typing(c, r, t)
              \/ \E m \in MessageIds, r \in Rooms, f \in BOOLEAN :
                   read_message(c, m, r, f)) =>
         /\ running'
         /\ (c \in conns => c \in conns')
         /\ rooms'[c] = rooms[c]]_vars

\* occurrences of v in the array arr
Occurrences(arr, v) == Cardinality({i \in 1..Len(arr) : arr[i] = v})

\* the step in which the read_message of socket c for message m is done:
\* its continuation after updateOne, or the event itself when the handler
\* ends before it suspends
ReadHandled(c, m) ==
  \/ \E p \in Suspended :
       p.kind = "read" /\ p.conn = c /\ p.messageId = m /\ Continues(p)
  \/ /\ socketUser(c) = Undefined
     /\ \E r \in Rooms, f \in BOOLEAN : read_message(c, m, r, f)

(* C10: read-receipt idempotence.  Once a read_message of a socket for a   *)
(* stored message has been handled, however many times, the socket's       *)
(* identity is in the message's readBy exactly once.                       *)
C10_ReadIdempotent ==
  [][\A c \in ConnIds, m \in MessageIds :
       (ReadHandled(c, m) /\ m <= Len(messages')) =>
         Occurrences(messages'[m].readBy, socketUser(c)) = 1]_vars

\* no document of the collection has the id m
Absent(m) == \A i \in 1..Len(messages) : messages[i].id # m

(* C11: a read_message that names a message absent from the collection, or *)
(* whose update the store fails, ends with an error event delivered to the *)
(* originating socket, and no message_read is delivered to anyone.         *)
C11_ReadFailureError ==
  [][\A c \in ConnIds, m \in MessageIds :
       (/\ ReadHandled(c, m)
        /\ \/ Absent(m)
           \/ \E p \in Suspended :
                /\ p.kind = "read" /\ p.conn = c /\ p.messageId = m
                /\ p.stage = "rejected" /\ Continues(p)) =>
         /\ ErrorEvents(c) # {}
         /\ \A c2 \in ConnIds : \A e \in Delivered(c2) : e.type # "message_read"]_vars

\* the response of the request made in the current step
Answer == responses'[Len(responses')]

\* the documents of room r in the collection
StoredIn(r) == {m \in Range(messages) : m.roomId = r}

(* C12: a history request for a room, with the store reachable, is         *)
(* answered 200 with exactly the stored documents of that room, each once; *)
(* a room without documents gets the empty list.                           *)
C12_HistoryOfRoom ==
  [][\A r \in Rooms :
       (getHistory(r) /\ dbUp) =>
         /\ Answer.status = 200
         /\ Range(Answer.body) = StoredIn(r)
         /\ Len(Answer.body) = Cardinality(StoredIn(r))]_vars

\* a room without documents was answered the empty list, and a later
\* request was answered some documents of a collection that holds more
C12_Witness ==
  /\ Len(responses) = 2
  /\ responses[1] = Response(200, <<>>, Undefined)
  /\ responses[2].status = 200
  /\ responses[2].body # <<>>
  /\ Len(responses[2].body) < Len(messages)

(* C13: every history answer lists its documents in non-decreasing order   *)
(* of timestamp, whatever the order in which they were created.            *)
C13_HistoryOrdered ==
  \A n \in 1..Len(responses) :
    \A i, j \in 1..Len(responses[n].body) :
      i < j => responses[n].body[i].timestamp <= responses[n].body[j].timestamp

\* an answer lists a document created later before one created earlier
C13_Witness ==
  \E n \in 1..Len(responses) :
    /\ Len(responses[n].body) = 2
    /\ responses[n].body[1].id > responses[n].body[2].id
    /\ responses[n].body[1].timestamp < responses[n].body[2].timestamp

(* C14: a history request made while the store is unreachable is answered  *)
(* 500 with the error 'Failed to fetch chat history', which is not the     *)
(* answer of an empty room; a request made while the store is reachable,   *)
(* also after an outage, is answered 200.                                  *)
C14_HistoryStoreFailure ==
  [][\A r \in Rooms :
       getHistory(r) =>
         IF dbUp
           THEN Answer.status = 200 /\ Answer.error = Undefined
           ELSE /\ Answer.status = 500
                /\ Answer.error = "Failed to fetch chat history"
                /\ Answer # Response(200, <<>>, Undefined)]_vars

\* a request failed during an outage and the next one, after the store
\* came back, returned the room's document
C14_Witness ==
  /\ Len(responses) = 2
  /\ responses[1].status = 500
  /\ responses[2].status = 200
  /\ responses[2].body # <<>>
  /\ dbUp

\* the credentials of the claim: none presented, or one that does not verify
Unverified == {NoCredential, InvalidToken}

Saved(p) == [p EXCEPT !.stage = "resolved", !.docId = Len(messages) + 1]

(* C16: a socket that presented no credential, or one that does not        *)
(* verify, is registered without an identity; it can join any room and     *)
(* send messages; a save of its message that resolves has stored the       *)
(* document, and the continuation delivers exactly one receive_message to  *)
(* every member of the room.                                               *)
C16_AnonymousParticipates ==
  [][\A c \in conns :
       handshake[c] \in Unverified =>
         /\ socketUser(c) = Undefined
         /\ \A r \in Rooms : ENABLED join_room(c, r)
         /\ (CanSuspend /\ RoomInStore) =>
              \A d \in SendPayloads : ENABLED send_message(c, d)
         /\ \A p \in Suspended :
              (p.kind = "send" /\ p.conn = c /\ running') =>
                /\ (/\ p.stage = "awaiting"
                    /\ Copies(pending', Saved(p)) > Copies(pending, Saved(p))) =>
                     messages' = Append(messages,
                                        [id |-> Len(messages) + 1, roomId |-> p.roomId,
                                         sender |-> p.sender, message |-> p.message,
                                         timestamp |-> p.ts, readBy |-> <<>>])
                /\ (p.stage = "resolved" /\ Continues(p)) =>
                     \A c2 \in membersOf(p.roomId) :
                       /\ Len(inbox'[c2]) = Len(inbox[c2]) + 1
                       /\ \A e \in Delivered(c2) :
                            /\ e.type = "receive_message"
                            /\ e.docId = p.docId
                            /\ e.fields.sender = p.sender
                            /\ e.fields.message = p.message]_vars

\* a socket that presented a credential that does not verify has joined a
\* room and sent a message, which is stored and which it and a socket that
\* presented none both hold
C16_Witness ==
  \E c1, c2 \in conns :
    /\ handshake[c1] = InvalidToken
    /\ handshake[c2] = NoCredential
    /\ \E e \in Range(inbox[c1]) :
         /\ e.type = "receive_message"
         /\ e.origin = c1
         /\ e \in Range(inbox[c2])
         /\ \E m \in Range(messages) : m.id = e.docId /\ m.roomId = e.room

(* C17: joining a room is idempotent.  For a socket that is in a room,     *)
(* joining it again leaves every membership as it is, and no socket ever   *)
(* holds two receive_message events for the same stored message.           *)
C17_JoinIdempotent ==
  /\ \A c \in conns : \A r \in rooms[c] : socketJoin(rooms, c, r) = rooms
  /\ \A c \in ConnIds : \A i, j \in 1..Len(inbox[c]) :
       (/\ i < j
        /\ inbox[c][i].type = "receive_message"
        /\ inbox[c][j].type = "receive_message") =>
         inbox[c][i].docId # inbox[c][j].docId

\* a socket in a room, for which a further join_room is a step that changes
\* nothing, holds the one event of a message another socket sent to the room
C17_Witness ==
  \E c \in conns : \E r \in rooms[c] :
    /\ ENABLED join_room(c, r)
    /\ Len(inbox[c]) = 1
    /\ inbox[c][1].type = "receive_message"
    /\ inbox[c][1].room = r
    /\ inbox[c][1].origin # c

(* C18: while a socket stays connected its membership only grows: a join   *)
(* adds the room and keeps the others, and every step that takes a room    *)
(* away from a socket is its teardown.                                     *)
C18_MembershipGrows ==
  [][\A c \in ConnIds :
       /\ (c \in conns /\ c \in conns') => rooms[c] \subseteq rooms'[c]
       /\ ~(rooms[c] \subseteq rooms'[c]) => (c \in conns /\ c \in closed')
       /\ \A r \in Rooms :
            (c \in conns /\ join_room(c, r)) => rooms'[c] = rooms[c] \cup {r}]_vars

\* a socket has joined both rooms
C18_Witness == \E c \in conns : rooms[c] = {"rA", "rB"}

(* C19: once a socket is torn down it is in no room and no event is        *)
(* delivered to it, in the teardown step and in every later one, also when *)
(* a handler of its own was suspended at the teardown.                     *)
C19_NothingAfterTeardown ==
  [][\A c \in ConnIds :
       c \in closed' => (rooms'[c] = {} /\ c \notin conns' /\ inbox'[c] = inbox[c])]_vars

\* a torn-down socket that had received a message in its room sent another
\* one, which was broadcast after the teardown: a member holds it, the
\* torn-down socket does not
C19_Witness ==
  \E c \in closed, c2 \in conns :
    /\ inbox[c] # <<>>
    /\ \E e \in Range(inbox[c2]) :
         /\ e.type = "receive_message"
         /\ e.origin = c
         /\ e.room = inbox[c][1].room
         /\ e \notin Range(inbox[c])

(* C20: a stored ChatMessage keeps its id, roomId, sender, message and     *)
(* timestamp in every step; only its readBy may differ afterwards.         *)
C20_StoredFieldsFrozen ==
  [][\A i \in 1..Len(messages) :
       /\ i <= Len(messages')
       /\ messages'[i].id = messages[i].id
       /\ messages'[i].roomId = messages[i].roomId
       /\ messages'[i].sender = messages[i].sender
       /\ messages'[i].message = messages[i].message
       /\ messages'[i].timestamp = messages[i].timestamp]_vars

\* a stored message is followed by a second one, saved later for the other
\* room, after a socket was torn down
C20_Witness ==
  /\ Len(messages) = 2
  /\ messages[1].timestamp < messages[2].timestamp
  /\ messages[1].roomId # messages[2].roomId
  /\ closed # {}

(* C21: readBy grows monotonically.  In every step each stored message's   *)
(* readBy keeps the identities it had and has no duplicates, and when it   *)
(* changes it gains the userId of a read_message invocation for that       *)
(* message whose update the store is completing, and nothing else.         *)
C21_ReadByGrows ==
  [][\A i \in 1..Len(messages) :
       /\ i <= Len(messages')
       /\ Range(messages[i].readBy) \subseteq Range(messages'[i].readBy)
       /\ Len(messages'[i].readBy) = Cardinality(Range(messages'[i].readBy))
       /\ messages'[i].readBy # messages[i].readBy =>
            \E p \in Suspended :
              /\ p.kind = "read"
              /\ p.stage = "awaiting"
              /\ p.messageId = messages[i].id
              /\ Range(messages'[i].readBy) =
                   Range(messages[i].readBy) \cup {p.sender}]_vars

\* a stored message has been read by both identities, and a further read of
\* it has resolved
C21_Witness ==
  \E i \in 1..Len(messages) :
    /\ Range(messages[i].readBy) = UserIds
    /\ \E p \in Suspended :
         /\ p.kind = "read" /\ p.stage = "resolved"
         /\ p.messageId = messages[i].id

\* the step in which the save of the send_message invocation p resolves
SaveResolves(p) ==
  /\ p \in Suspended
  /\ p.kind = "send"
  /\ p.stage = "awaiting"
  /\ running'
  /\ Copies(pending', Saved(p)) > Copies(pending, Saved(p))

(* C22: the collection is append-only and written by send_message alone.   *)
(* No step removes or replaces a stored message; a step in which a save    *)
(* resolves adds exactly one message, the one sent; and a step that adds a *)
(* message is the resolving save of a complete send_message, so join_room, *)
(* typing, read_message, disconnect and a failed send add none.            *)
C22_AppendOnlyBySend ==
  [][/\ Len(messages') >= Len(messages)
     /\ \A i \in 1..Len(messages) : messages'[i].id = messages[i].id
     /\ \A p \in Suspended : SaveResolves(p) => Len(messages') = Len(messages) + 1
     /\ Len(messages') # Len(messages) =>
          \E p \in Suspended :
            /\ SaveResolves(p)
            /\ ~Incomplete(p)
            /\ Len(messages') = Len(messages) + 1
            /\ messages'[Len(messages')].roomId = p.roomId
            /\ messages'[Len(messages')].sender = p.sender
            /\ messages'[Len(messages')].message = p.message]_vars

\* one message is stored, a complete send has failed at the store and an
\* incomplete one at validation, a socket is in a room and one is torn down
C22_Witness ==
  /\ Len(messages) = 1
  /\ \E p, q \in Suspended :
       /\ p.kind = "send" /\ ~Incomplete(p) /\ p.stage = "rejected"
       /\ q.kind = "send" /\ Incomplete(q) /\ q.stage = "rejected"
  /\ \E c \in conns : rooms[c] # {}
  /\ closed # {}

\* the header has a second word, the token
CarriesToken(h) == Len(h) >= 2 /\ h[2] # ""

Registered(email) == \E i \in 1..Len(users) : users[i].email.name = email.name

C25_MembersAtBroadcast ==
  [][(\E c \in ConnIds : \E e \in Delivered(c) : e.type = "receive_message") =>
       \E p \in Suspended :
         /\ p.kind = "send"
         /\ p.stage = "resolved"
         /\ Continues(p)
         /\ \A c \in ConnIds :
              IF c \in conns /\ p.roomId \in rooms[c]
                THEN /\ Len(inbox'[c]) = Len(inbox[c]) + 1
                     /\ \A e \in Delivered(c) : e.docId = p.docId
                ELSE inbox'[c] = inbox[c]]_vars

\* socket a sent two messages to a room before the first was broadcast (the
\* second was stamped before the first broadcast's time).  a received the
\* first and was torn down before the second was broadcast; b joined after
\* the first broadcast and received the second only.
C25_Witness ==
  \E a \in closed, b \in conns :
    /\ Len(inbox[a]) = 1
    /\ Len(inbox[b]) = 1
    /\ LET e1 == inbox[a][1]
           e2 == inbox[b][1]
       IN  /\ e1.type = "receive_message"
           /\ e2.type = "receive_message"
           /\ e1.room = e2.room
           /\ e1.origin = a
           /\ e2.origin = a
           /\ e1.docId # e2.docId
           /\ messages[e2.docId].timestamp < e1.fields.timestamp

\* p and q are complete send_message invocations of different sockets for
\* the same room, both at the given stage
Concurrent(p, q, stage) ==
  /\ p.kind = "send" /\ q.kind = "send"
  /\ ~Incomplete(p) /\ ~Incomplete(q)
  /\ p.conn # q.conn
  /\ p.roomId = q.roomId
  /\ p.stage = stage /\ q.stage = stage

(* C26: two send_message events of different sockets for the same room     *)
(* that are handled concurrently may persist and broadcast in either       *)
(* order.  While both saves are awaited either may resolve next, and while *)
(* both have resolved either continuation may run next, whatever the order *)
(* of the stored documents.                                                *)
C26_EitherOrder ==
  \A p, q \in Suspended :
    /\ (running /\ Concurrent(p, q, "awaiting")) =>
         ENABLED storeComplete(p, TRUE) /\ ENABLED storeComplete(q, TRUE)
    /\ (running /\ Concurrent(p, q, "resolved")) =>
         ENABLED resume(p) /\ ENABLED resume(q)

\* a member of the room received the two messages of different sockets in
\* the order opposite to that of the stored documents
C26_Witness ==
  \E c \in conns :
    /\ Len(inbox[c]) = 2
    /\ inbox[c][1].type = "receive_message"
    /\ inbox[c][2].type = "receive_message"
    /\ inbox[c][1].room = inbox[c][2].room
    /\ inbox[c][1].origin # inbox[c][2].origin
    /\ inbox[c][1].docId > inbox[c][2].docId
    /\ Len(find(inbox[c][1].room)) = 2

\* the step handles an event of socket c
EventOf(c) ==
  \/ \E r \in Rooms : join_room(c, r)
  \/ \E d \in SendPayloads : send_message(c, d)
  \/ \E r \in Rooms, t \in BOOLEAN : typing(c, r, t)
  \/ \E m \in MessageIds, r \in Rooms, f \in BOOLEAN : read_message(c, m, r, f)
  \/ disconnect(c)

(* C27: while a handler invocation is suspended on a store call that has   *)
(* not returned, an event of another socket (join_room, send_message,      *)
(* typing, read_message, disconnect) is handled to completion: the process *)
(* keeps running and the suspended invocation stays as it is.              *)
C27_StallContained ==
  [][\A p \in Suspended :
       p.stage = "awaiting" =>
         \A c \in conns \ {p.conn} :
           EventOf(c) =>
             /\ running'
             /\ Copies(pending', p) >= Copies(pending, p)]_vars

(* C28: no read is lost.  Once a read_message of a socket for a stored     *)
(* message has been handled, the message's readBy holds that socket's      *)
(* identity and every identity it held before, so that after the reads of  *)
(* two sockets, in any interleaving, it holds both.                        *)
C28_NoLostRead ==
  [][\A c \in ConnIds, m \in MessageIds :
       (ReadHandled(c, m) /\ ~Absent(m)) =>
         \E i \in 1..Len(messages') :
           /\ messages'[i].id = m
           /\ socketUser(c) \in Range(messages'[i].readBy)
           /\ Range(messages[i].readBy) \subseteq Range(messages'[i].readBy)]_vars

\* the stored document a receive_message announces
DocOf(e) == messages[e.docId]

(* C29: messages sent one after another by one socket to one room are      *)
(* received by every other member in the order in which they were sent:   *)
(* of two receive_message events a socket holds, of the same other socket  *)
(* and for the same room, the one received first is not of a message that  *)
(* was sent (and stamped) later.                                           *)
C29_SendOrder ==
  \A c \in ConnIds : \A i, j \in 1..Len(inbox[c]) :
    (/\ i < j
     /\ inbox[c][i].type = "receive_message"
     /\ inbox[c][j].type = "receive_message"
     /\ inbox[c][i].origin = inbox[c][j].origin
     /\ inbox[c][i].origin # c
     /\ inbox[c][i].room = inbox[c][j].room) =>
      DocOf(inbox[c][i]).timestamp <= DocOf(inbox[c][j]).timestamp

C31_NothingSentBeforeJoin ==
  /\ \A c \in ConnIds \ conns : rooms[c] = {}
  /\ \A c \in ConnIds : \A e \in Range(inbox[c]) :
       e.type = "receive_message" => e.origin = c

(* C31, amended: a newly established connection, also one of a client that *)
(* was connected before, is a member of no room; a room is added to a      *)
(* connection's memberships only by its own join_room; and a               *)
(* receive_message is delivered to a connection only when it had joined    *)
(* the room before the broadcast, so a message broadcast before the join   *)
(* is not delivered to it.                                                 *)
C31_FreshConnection ==
  [][\A c \in ConnIds :
       /\ (c \notin conns /\ c \in conns') => rooms'[c] = {}
       /\ \A r \in rooms'[c] \ rooms[c] : join_room(c, r)
       /\ \A e \in Delivered(c) :
            e.type = "receive_message" => e.room \in rooms[c]]_vars

\* the client's first connection was in rA and received a message there;
\* it is torn down, the second connection is established and is in no room,
\* and a second message to rA has been stored and broadcast without
\* reaching it
C31_Witness ==
  /\ 1 \in closed
  /\ \E e \in Range(inbox[1]) : e.type = "receive_message" /\ e.room = "rA"
  /\ 2 \in conns
  /\ rooms[2] = {}
  /\ inbox[2] = <<>>
  /\ Len(messages) = 2
  /\ messages[2].roomId = "rA"
  /\ pending = EmptyBag

(* C32: a ChatMessage created without a timestamp is stored with the time  *)
(* of its creation, and one created with a timestamp of its own is stored  *)
(* with exactly that timestamp, whatever the time of its creation.         *)
C32_TimestampDefault ==
  [][\A d \in CreatePayloads, ts \in Timestamps :
       create(d, ts) =>
         /\ Len(messages') = Len(messages) + 1
         /\ messages'[Len(messages')].timestamp =
              (IF ts = NoTimestamp THEN now ELSE ts)
         /\ ts # NoTimestamp => messages'[Len(messages')].timestamp = ts]_vars

\* the clock has not advanced; one document carries a timestamp of its own,
\* later than the time of its creation, the other the time of its creation
C32_Witness ==
  /\ now = 0
  /\ Len(messages) = 2
  /\ messages[1].timestamp = MaxTime
  /\ messages[2].timestamp = 0

(* C33: a ChatMessage whose message is the empty string is accepted by the *)
(* store: while the store is reachable and has room, creating it succeeds  *)
(* (and the document, with message "", is then in the history of its room). *)
C33_EmptyMessageAccepted ==
  \A d \in EmptyMessagePayloads :
    (dbUp /\ Len(messages) < MaxMessages) => ENABLED create(d, NoTimestamp)

(* C34: sending does not require membership.  A connected socket can send  *)
(* to a room it is not in; when the save of its message resolves the       *)
(* message is stored; and when the handler continues, the members of the   *)
(* room each receive one receive_message while the sender, still outside   *)
(* the room, receives nothing.                                             *)
C34_SendWithoutMembership ==
  [][\A c \in conns :
       /\ (CanSuspend /\ RoomInStore) =>
            \A d \in SendPayloads :
              d.roomId \notin rooms[c] => ENABLED send_message(c, d)
       /\ \A p \in Suspended :
            (p.kind = "send" /\ p.conn = c /\ p.roomId \notin rooms[c]) =>
              /\ SaveResolves(p) =>
                   /\ Len(messages') = Len(messages) + 1
                   /\ messages'[Len(messages')].roomId = p.roomId
                   /\ messages'[Len(messages')].message = p.message
              /\ (p.stage = "resolved" /\ Continues(p)) =>
                   /\ inbox'[c] = inbox[c]
                   /\ \A c2 \in membersOf(p.roomId) :
                        /\ Len(inbox'[c2]) = Len(inbox[c2]) + 1
                        /\ \A e \in Delivered(c2) :
                             /\ e.type = "receive_message"
                             /\ e.origin = c
                             /\ e.docId = p.docId]_vars

\* a socket that is in no room and has received nothing sent a message to
\* rA: it is stored, and the member of rA holds it
C34_Witness ==
  \E c \in conns, c2 \in conns :
    /\ rooms[c] = {}
    /\ inbox[c] = <<>>
    /\ "rA" \in rooms[c2]
    /\ \E e \in Range(inbox[c2]) :
         /\ e.type = "receive_message"
         /\ e.origin = c
         /\ e.room = "rA"
         /\ \E m \in Range(messages) : m.id = e.docId /\ m.roomId = "rA"

\* the step in which the read_message of socket c for message m, with room
\* r in its payload, is done
ReadHandledFor(c, m, r) ==
  \/ \E p \in Suspended :
       /\ p.kind = "read" /\ p.conn = c /\ p.messageId = m /\ p.roomId = r
       /\ Continues(p)
  \/ /\ socketUser(c) = Undefined
     /\ \E f \in BOOLEAN : read_message(c, m, r, f)

(* C35: read_message does not relate the roomId it is given to the         *)
(* message.  Once a read_message of a socket for a stored message has been *)
(* handled, whatever the room of the message and whatever the rooms of the *)
(* socket, the socket's identity is in the message's readBy and every      *)
(* other member of the room given in the event has received message_read.  *)
C35_ReadIgnoresRoom ==
  [][\A c \in ConnIds, m \in MessageIds, r \in Rooms :
       (ReadHandledFor(c, m, r) /\ ~Absent(m)) =>
         /\ \E i \in 1..Len(messages') :
              /\ messages'[i].id = m
              /\ socketUser(c) \in Range(messages'[i].readBy)
         /\ \A c2 \in membersOf(r) \ {c} :
              \E e \in Delivered(c2) :
                /\ e.type = "message_read"
                /\ e.fields.messageId = m]_vars

(* C36: the timestamp a receive_message carries is the clock's value when  *)
(* the broadcast is emitted, not the stored one: every receive_message     *)
(* delivered in a step carries the time of that step, which is not earlier *)
(* than the timestamp of the stored message it announces.                  *)
C36_BroadcastTimestamp ==
  [][\A c \in ConnIds : \A e \in Delivered(c) :
       e.type = "receive_message" =>
         /\ e.fields.timestamp = now
         /\ e.docId \in 1..Len(messages)
         /\ e.fields.timestamp >= messages[e.docId].timestamp]_vars

\* a socket holds a receive_message whose timestamp is later than the one
\* stored for the message
C36_Witness ==
  \E c \in ConnIds : \E e \in Range(inbox[c]) :
    /\ e.type = "receive_message"
    /\ e.fields.timestamp > DocOf(e).timestamp

(* C37: a send_message whose socket is torn down while the save is pending *)
(* is still completed.  For a complete send of a torn-down socket: the     *)
(* store can resolve the save, and the step in which it does adds the      *)
(* message to the collection; the continuation can run, and when it does   *)
(* every member of the room at that moment receives one receive_message    *)
(* for the message and the torn-down sender receives nothing.              *)
C37_CompletedAfterTeardown ==
  [][\A p \in Suspended :
       (p.kind = "send" /\ ~Incomplete(p) /\ p.conn \in closed /\ running) =>
         /\ p.stage = "awaiting" => ENABLED storeComplete(p, TRUE)
         /\ SaveResolves(p) =>
              /\ Len(find(p.roomId)') = Len(find(p.roomId)) + 1
              /\ messages'[Len(messages')].message = p.message
         /\ p.stage = "resolved" => ENABLED resume(p)
         /\ (p.stage = "resolved" /\ Continues(p)) =>
              /\ inbox'[p.conn] = inbox[p.conn]
              /\ \A c \in membersOf(p.roomId) :
                   /\ Len(inbox'[c]) = Len(inbox[c]) + 1
                   /\ \A e \in Delivered(c) :
                        /\ e.type = "receive_message"
                        /\ e.docId = p.docId]_vars

\* a socket sent two messages to rA and was torn down; the save of one is
\* still pending, the other is stored and the member of rA holds it, the
\* torn-down socket having received nothing
C37_Witness ==
  \E c \in closed, c2 \in conns :
    /\ inbox[c] = <<>>
    /\ "rA" \in rooms[c2]
    /\ \E p \in Suspended :
         p.kind = "send" /\ p.conn = c /\ p.roomId = "rA" /\ p.stage = "awaiting"
    /\ \E e \in Range(inbox[c2]) :
         /\ e.type = "receive_message"
         /\ e.origin = c
         /\ e.room = "rA"
         /\ DocOf(e).roomId = "rA"

\* receive_message events in the sequence box that announce document d
Announcements(box, d) ==
  {i \in 1..Len(box) : box[i].type = "receive_message" /\ box[i].docId = d}

(* C38: no duplication.  A step stores at most one message, and one only   *)
(* for a send_message invocation whose save resolves in it, which is then  *)
(* no longer awaiting; a step delivers at most one receive_message to a    *)
(* socket, and only as the continuation of an invocation that leaves with  *)
(* it; and no socket ever holds two receive_message events for the same    *)
(* stored message.                                                          *)
C38_NoDuplication ==
  [][/\ Len(messages') <= Len(messages) + 1
     /\ Len(messages') = Len(messages) + 1 =>
          \E p \in Suspended :
            /\ SaveResolves(p)
            /\ Copies(pending', p) = Copies(pending, p) - 1
            /\ messages'[Len(messages')].id \notin {messages[i].id : i \in 1..Len(messages)}
     /\ \A c \in ConnIds :
          /\ Len(inbox'[c]) <= Len(inbox[c]) + 1
          /\ \A e \in Delivered(c) :
               e.type = "receive_message" =>
                 \E p \in Suspended :
                   /\ p.kind = "send" /\ p.docId = e.docId /\ Continues(p)
                   /\ Copies(pending', p) = 0
          /\ \A d \in MessageIds : Cardinality(Announcements(inbox'[c], d)) <= 1]_vars

\* a socket in a room sent the same payload twice: two messages are stored,
\* the socket holds one receive_message for each and nothing else, and no
\* invocation is left
C38_Witness ==
  \E c \in conns :
    /\ pending = EmptyBag
    /\ Len(messages) = 2
    /\ messages[1].roomId = messages[2].roomId
    /\ messages[1].timestamp = messages[2].timestamp
    /\ Len(inbox[c]) = 2
    /\ \A d \in MessageIds : Cardinality(Announcements(inbox[c], d)) = 1
    /\ \A i \in 1..2 : inbox[c][i].origin = c

====
